---- MODULE Spec2Model ----
(***************************************************************************)
(* The asynchronous dispatch layer of the shape geometry engine: the       *)
(* controller module (src/unnamed/part_004, lines 1-197) that owns the     *)
(* worker handle, the pending-request table and the request counter, and   *)
(* the worker script (src/src/utils/workers/math.worker.ts) that answers   *)
(* its messages.                                                           *)
(*                                                                         *)
(* JavaScript values are records tagged by their type; a string is the     *)
(* sequence of its pieces, so that "" is <<>> and template concatenation   *)
(* is \o.  A request id `req-<n>-<t>` is the pair <<n, t>>.                *)
(*                                                                         *)
(* Time is relative: every armed timer carries the time elapsed since it   *)
(* was armed, and a timer may fire once its delay has elapsed.             *)
(***************************************************************************)
EXTENDS Integers, Sequences, FiniteSets, TLC

(* ------------------------------ bounds --------------------------------- *)

\* Cap on requestIdCounter: how many requests are dispatched in one run.
MaxRequests == 2
\* Cap on the number of Worker objects constructed in one run.
MaxWorkers == 2
\* Cap on the dispatches of a run whose infinite behaviours are examined.
MaxLiveRequests == 1
\* Cap on the length of useHistory's past in one run.
MaxPast == 3
\* Cap on the state updates of useHistory queued when one more call is made
\* before the hook renders.
MaxQueued == 5

(* ------------------------- program constants --------------------------- *)

\* setTimeout(..., 10000)
TIMEOUT_MS == 10000

\* Time passes in steps of half the timeout.
TickMs == TIMEOUT_MS \div 2

(* --------------------------- JavaScript values ------------------------- *)

Undefined == [type |-> "undefined"]
Str(s) == [type |-> "string", s |-> s]
\* new Error(message)
Error(message) == [type |-> "Error", message |-> message]

\* ToBoolean, as `if (error)` applies it: undefined and "" are falsy.
Truthy(v) ==
    /\ v # Undefined
    /\ ~(v.type = "string" /\ v.s = <<>>)

\* Destructuring `const { f } = data`: a missing property reads undefined.
Field(data, f) == IF f \in DOMAIN data THEN data[f] ELSE Undefined

(* ------------------------------- inputs -------------------------------- *)

Widths == {100}
Heights == {60}
Exps == {4}
CornerSets == {[topLeft |-> 2, topRight |-> 8, bottomRight |-> 2, bottomLeft |-> 8]}

\* What a call of the generator inside the worker can do: return, or throw
\* an Error (here one whose message is "") or a value that is no Error.
Returns == [type |-> "return"]
Thrown == {Error(<<>>), Str(<<"oops">>)}
GenOutcomes == {Returns} \cup Thrown

\* event.message of a worker error event
ErrorEventMessages == {<<"crash">>}

\* Date.now(), as the id embeds it
Timestamps == {0}

\* The exception postMessage raises when the message cannot be cloned.
PostException == Error(<<"DataCloneError">>)

(* --------------------------- curve generator --------------------------- *)

\* Negative dimensions are normalised to a zero-area outline.
Dim(x) == IF x < 0 THEN 0 ELSE x

MinExponent == 1
\* Exponents below the safe minimum are clamped to it.
SafeExp(e) == IF e < MinExponent THEN MinExponent ELSE e

\* The stitched outline as a function of the normalised size and the
\* exponent of each quadrant (top-left, top-right, bottom-right,
\* bottom-left): four partial contours joined at the edge midpoints.
Outline(width, height, tl, tr, br, bl) ==
    Str(<<"M", Dim(width), Dim(height), SafeExp(tl), SafeExp(tr), SafeExp(br), SafeExp(bl)>>)

\* The symmetric algorithm samples the whole boundary with one exponent;
\* its output is not that of the stitching algorithm.
getSuperellipsePath(width, height, exp) ==
    Str(<<"M", Dim(width), Dim(height), SafeExp(exp)>>)

\* A per-corner generator that always stitches.
getPerCornerSuperellipsePathStitched(width, height, corners) ==
    Outline(width, height, corners.topLeft, corners.topRight,
            corners.bottomRight, corners.bottomLeft)

getPerCornerSuperellipsePath(width, height, corners) ==
    IF /\ corners.topLeft = corners.topRight
       /\ corners.topRight = corners.bottomRight
       /\ corners.bottomRight = corners.bottomLeft
    THEN getSuperellipsePath(width, height, corners.topLeft)
    ELSE Outline(width, height, corners.topLeft, corners.topRight,
                 corners.bottomRight, corners.bottomLeft)

(* -------------------------------- state -------------------------------- *)

Null == 0

VARIABLES
    requestIdCounter,  \* let requestIdCounter
    pendingRequests,   \* the keys of the Map pendingRequests; the entry of id
                       \* closes over timers[id] and the promise of id
    worker,            \* let worker: Null, or the k-th Worker constructed
    workersCreated,    \* how many Worker objects have been constructed
    alive,             \* the Workers constructed and not yet terminated
    workerFailed,      \* the error event of the worker held has fired
    requests,          \* id -> the arguments of the call that minted id
    timers,            \* id -> the setTimeout handle of the call: its state,
                       \*       its delay and the time elapsed since armed
    invocations,       \* id -> the calls made of the promise's resolve and
                       \*       reject functions, in order
    inbox,             \* messages posted to the worker, not yet handled
    outbox,            \* responses posted by the worker, not yet delivered
    returned,          \* the promise the step just taken returned, when it
                       \* was an async call served by the synchronous
                       \* fallback; NoReturn after any other step
    shapeContent,      \* useSelectedShapeContent: the selected layer's content
    shapePath,         \* useSelectedShapeContent: pathData, the memoised outline
    maxHistory,        \* useHistory: the maxHistory argument
    past,              \* useHistory: the state `past` as last rendered, the
                       \* past snapshots, oldest first
    present,           \* useHistory: the state `present` as last rendered,
                       \* which the callbacks of that render close over
    future,            \* useHistory: the state `future` as last rendered,
                       \* the undone snapshots, next redo first
    pastQueue,         \* useHistory: the updates setPast has queued since
                       \* the last render, in the order of the calls
    presentQueue,      \* useHistory: the same for setPresent
    futureQueue,       \* useHistory: the same for setFuture
    requireDefined     \* whether `require` is bound where the controller
                       \* module runs: the bundler decides, once and for all

\* The state of the controller, the worker and the channel between them.
state == <<requestIdCounter, pendingRequests, worker, workersCreated, alive,
           workerFailed, requests, timers, invocations, inbox, outbox>>

\* The state of the React hooks (src/unnamed/part_000).
hooks == <<shapeContent, shapePath, maxHistory, past, present, future,
           pastQueue, presentQueue, futureQueue>>

vars == <<state, returned, hooks, requireDefined>>

NoReturn == [state |-> "none"]

\* How a call completes: it returns a value or throws one.
Return(value) == [type |-> "return", value |-> value]
Throw(value) == [type |-> "throw", value |-> value]

\* What evaluating `require` throws where no such binding exists.
ReferenceError(message) == [type |-> "ReferenceError", message |-> message]
RequireUndefined == ReferenceError(<<"require is not defined">>)

\* generatePathSync: `require('./math')`, then the symmetric generator.
generatePathSync(width, height, exp) ==
    IF requireDefined
    THEN Return(getSuperellipsePath(width, height, exp))
    ELSE Throw(RequireUndefined)

\* generatePerCornerPathSync: `require('./math')`, then the per-corner
\* generator.
generatePerCornerPathSync(width, height, corners) ==
    IF requireDefined
    THEN Return(getPerCornerSuperellipsePath(width, height, corners))
    ELSE Throw(RequireUndefined)

Ids == DOMAIN requests

\* A promise is settled by the first call of resolve or reject; later
\* calls have no effect on it.
Pending == [state |-> "pending"]
PromiseOf(log) ==
    IF log = <<>> THEN Pending
    ELSE IF log[1].fn = "resolve"
         THEN [state |-> "fulfilled", value |-> log[1].arg]
         ELSE [state |-> "rejected", value |-> log[1].arg]
promise(id) == PromiseOf(invocations[id])

(* ------------------------ useSelectedShapeContent --------------------- *)

\* utils/shapeDefaults: the fields the outline depends on.
DEFAULT_SHAPE_CONTENT ==
    [width |-> 320, height |-> 400, exp |-> 4, useAsymmetricCorners |-> FALSE,
     cornerExponents |-> [topLeft |-> 4, topRight |-> 4,
                          bottomRight |-> 4, bottomLeft |-> 4]]

\* The contents a selected superellipse layer can hold here: sizes and
\* exponents include the degenerate 0.
ShapeWidths == {0, 320}
ShapeHeights == {400}
ShapeExps == {0, 2, 4}
ShapeContents ==
    [width : ShapeWidths, height : ShapeHeights, exp : ShapeExps,
     useAsymmetricCorners : BOOLEAN,
     cornerExponents : [topLeft : ShapeExps, topRight : ShapeExps,
                        bottomRight : ShapeExps, bottomLeft : ShapeExps]]

\* const pathData = useMemo(...): the generator the flag selects.
Memo(content) ==
    IF content.useAsymmetricCorners
    THEN getPerCornerSuperellipsePath(content.width, content.height,
                                      content.cornerExponents)
    ELSE getSuperellipsePath(content.width, content.height, content.exp)

\* The layer's content is replaced (updateSelectedShapeContent, or another
\* layer is selected) and the hook renders again.
updateSelectedShapeContent(content) ==
    /\ shapeContent' = content
    /\ shapePath' = Memo(content)
    /\ UNCHANGED <<state, returned, requireDefined, maxHistory, past, present, future,
                   pastQueue, presentQueue, futureQueue>>

(* ------------------------------ useHistory ---------------------------- *)

\* The snapshots the history holds; the hook is first rendered with "a".
Snapshots == {"a", "b"}
initialState == "a"
\* The values of the maxHistory argument examined besides the default.
MaxHistories == {0, 1, 2}

\* array.slice(-n): the last n elements, and the whole array when n is 0,
\* for -0 is 0 and slice(0) copies from the start.
SliceLast(array, n) ==
    IF n = 0 \/ n >= Len(array) THEN array
    ELSE SubSeq(array, Len(array) - n + 1, Len(array))

\* `newPast.length > maxHistory ? newPast.slice(-maxHistory) : newPast`
Limit(newPast, limit) ==
    IF Len(newPast) > limit THEN SliceLast(newPast, limit) ELSE newPast

\* A state update as a setter queues it: a value, or one of the updater
\* functions the hook passes, which closes over `item`, the `present` of
\* the render whose callback made the call.
Set(value) == [op |-> "set", value |-> value]
\* pushState: prevPast => limited [...prevPast, present]
PushUpdater(item) == [op |-> "push", item |-> item]
\* undo: prevPast => all but the last, setting future and present on the way
UndoUpdater(item) == [op |-> "undo", item |-> item]
\* redo: prevFuture => all but the first, setting past and present on the way
RedoUpdater(item) == [op |-> "redo", item |-> item]
\* undo, inside its updater: prevFuture => [present, ...prevFuture]
ConsUpdater(item) == [op |-> "cons", item |-> item]
\* redo, inside its updater: prevPast => [...prevPast, present]
AppendUpdater(item) == [op |-> "append", item |-> item]

\* What running one update gives: the new state, and the calls of the
\* other setters the updater made while it ran.
Ran(value, setPast, setPresent, setFuture) ==
    [state |-> value, setPast |-> setPast, setPresent |-> setPresent,
     setFuture |-> setFuture]

\* One update of `past` applied to prevPast.
RunPastUpdate(prevPast, update) ==
    CASE update.op = "set" -> Ran(update.value, <<>>, <<>>, <<>>)
      [] update.op = "push" ->
            Ran(Limit(Append(prevPast, update.item), maxHistory), <<>>, <<>>, <<>>)
      [] update.op = "append" ->
            Ran(Append(prevPast, update.item), <<>>, <<>>, <<>>)
      [] update.op = "undo" ->
            IF Len(prevPast) = 0 THEN Ran(prevPast, <<>>, <<>>, <<>>)
            ELSE Ran(SubSeq(prevPast, 1, Len(prevPast) - 1), <<>>,
                     <<Set(prevPast[Len(prevPast)])>>,
                     <<ConsUpdater(update.item)>>)

\* One update of `future` applied to prevFuture.
RunFutureUpdate(prevFuture, update) ==
    CASE update.op = "set" -> Ran(update.value, <<>>, <<>>, <<>>)
      [] update.op = "cons" ->
            Ran(<<update.item>> \o prevFuture, <<>>, <<>>, <<>>)
      [] update.op = "redo" ->
            IF Len(prevFuture) = 0 THEN Ran(prevFuture, <<>>, <<>>, <<>>)
            ELSE Ran(Tail(prevFuture), <<AppendUpdater(update.item)>>,
                     <<Set(Head(prevFuture))>>, <<>>)

\* The queue of `past` run in order from prevPast: the state it ends in
\* and the calls its updaters made, in order.
RECURSIVE RunPastQueue(_, _)
RunPastQueue(prevPast, queue) ==
    IF queue = <<>> THEN Ran(prevPast, <<>>, <<>>, <<>>)
    ELSE LET first == RunPastUpdate(prevPast, Head(queue))
             rest == RunPastQueue(first.state, Tail(queue))
         IN  Ran(rest.state, first.setPast \o rest.setPast,
                 first.setPresent \o rest.setPresent,
                 first.setFuture \o rest.setFuture)

\* The same for the queue of `future`.
RECURSIVE RunFutureQueue(_, _)
RunFutureQueue(prevFuture, queue) ==
    IF queue = <<>> THEN Ran(prevFuture, <<>>, <<>>, <<>>)
    ELSE LET first == RunFutureUpdate(prevFuture, Head(queue))
             rest == RunFutureQueue(first.state, Tail(queue))
         IN  Ran(rest.state, first.setPast \o rest.setPast,
                 first.setPresent \o rest.setPresent,
                 first.setFuture \o rest.setFuture)

\* The queue of `present` holds values only: the last one stays.
RunPresentQueue(prevPresent, queue) ==
    IF queue = <<>> THEN prevPresent ELSE queue[Len(queue)].value

\* How many updates wait for the next render.
Queued == Len(pastQueue) + Len(presentQueue) + Len(futureQueue)

\* How many of the queued updates can lengthen `past`.
Lengthening ==
    Cardinality({i \in DOMAIN pastQueue : pastQueue[i].op \in {"push", "append"}})
    + Cardinality({i \in DOMAIN futureQueue : futureQueue[i].op = "redo"})

\* pushState(newState), called from the closure of the last render: three
\* updates are queued.
pushState(newState) ==
    /\ Queued < MaxQueued
    /\ Len(past) + Lengthening < MaxPast
    /\ pastQueue' = Append(pastQueue, PushUpdater(present))
    /\ presentQueue' = Append(presentQueue, Set(newState))
    /\ futureQueue' = Append(futureQueue, Set(<<>>))
    /\ UNCHANGED <<state, returned, requireDefined, shapeContent, shapePath,
                   maxHistory, past, present, future>>

\* undo(): setPast(updater). React runs the updater when it processes the
\* queue of `past`: at the next render, or (eager) at the call when no
\* update is pending on the component (a setter called before with the
\* state it already had left none), in which case the setFuture and
\* setPresent the updater calls are queued at the call, the state computed
\* is queued as a value, and nothing is queued when it is the same array.
undo(eager) ==
    /\ Queued < MaxQueued
    /\ eager => Queued = 0
    /\ IF eager
       THEN LET ran == RunPastUpdate(past, UndoUpdater(present))
            IN  /\ pastQueue' = IF ran.state = past THEN pastQueue
                                ELSE Append(pastQueue, Set(ran.state))
                /\ presentQueue' = presentQueue \o ran.setPresent
                /\ futureQueue' = futureQueue \o ran.setFuture
       ELSE /\ pastQueue' = Append(pastQueue, UndoUpdater(present))
            /\ UNCHANGED <<presentQueue, futureQueue>>
    /\ UNCHANGED <<state, returned, requireDefined, shapeContent, shapePath,
                   maxHistory, past, present, future>>

\* redo(): setFuture(updater), run as the updater of undo is.
redo(eager) ==
    /\ Queued < MaxQueued
    /\ Len(past) + Lengthening < MaxPast
    /\ eager => Queued = 0
    /\ IF eager
       THEN LET ran == RunFutureUpdate(future, RedoUpdater(present))
            IN  /\ futureQueue' = IF ran.state = future THEN futureQueue
                                  ELSE Append(futureQueue, Set(ran.state))
                /\ pastQueue' = pastQueue \o ran.setPast
                /\ presentQueue' = presentQueue \o ran.setPresent
       ELSE /\ futureQueue' = Append(futureQueue, RedoUpdater(present))
            /\ UNCHANGED <<pastQueue, presentQueue>>
    /\ UNCHANGED <<state, returned, requireDefined, shapeContent, shapePath,
                   maxHistory, past, present, future>>

\* setPresent(value). While no update is pending on the component React
\* may compare the value with the state at the call (eager), and a value
\* that is the state already is then dropped: nothing is queued and no
\* render is scheduled.
DispatchPresent(queue, value, eager) ==
    IF eager /\ value = present THEN queue ELSE Append(queue, Set(value))

\* setState: setPresent
setState(newState, eager) ==
    /\ Queued < MaxQueued
    /\ eager => Queued = 0
    /\ presentQueue' = DispatchPresent(presentQueue, newState, eager)
    /\ UNCHANGED <<state, returned, requireDefined, shapeContent, shapePath,
                   maxHistory, past, present, future, pastQueue, futureQueue>>

\* clearHistory()
clearHistory ==
    /\ Queued < MaxQueued
    /\ pastQueue' = Append(pastQueue, Set(<<>>))
    /\ futureQueue' = Append(futureQueue, Set(<<>>))
    /\ UNCHANGED <<state, returned, requireDefined, shapeContent, shapePath,
                   maxHistory, past, present, future, presentQueue>>

\* resetHistory(state): setPresent first, then the two arrays, which are
\* new arrays and so never the state already.
resetHistory(newState, eager) ==
    /\ Queued < MaxQueued
    /\ eager => Queued = 0
    /\ presentQueue' = DispatchPresent(presentQueue, newState, eager)
    /\ pastQueue' = Append(pastQueue, Set(<<>>))
    /\ futureQueue' = Append(futureQueue, Set(<<>>))
    /\ UNCHANGED <<state, returned, requireDefined, shapeContent, shapePath,
                   maxHistory, past, present, future>>

\* The state the next render of the hook computes. The hooks run in the
\* order of their useState calls, each running its queue. What an updater
\* of `past` queues for `present` and `future` while it runs joins the end
\* of their queues, behind the updates of every call made before the
\* render. What an updater of `future` queues for `past` and `present` is
\* applied when the component function is run again, on top of what the
\* first run computed.
Rendered ==
    LET ofPast == RunPastQueue(past, pastQueue)
        ofFuture == RunFutureQueue(future, futureQueue \o ofPast.setFuture)
        again == RunPastQueue(ofPast.state, ofFuture.setPast)
    IN  [past |-> again.state,
         present |-> RunPresentQueue(present,
                        presentQueue \o ofPast.setPresent \o ofFuture.setPresent),
         future |-> ofFuture.state]

\* The hook renders again with the queued updates applied: the callbacks
\* are made anew and close over the present of this render.
render ==
    /\ Queued > 0
    /\ past' = Rendered.past
    /\ present' = Rendered.present
    /\ future' = Rendered.future
    /\ pastQueue' = <<>>
    /\ presentQueue' = <<>>
    /\ futureQueue' = <<>>
    /\ UNCHANGED <<state, returned, requireDefined, shapeContent, shapePath, maxHistory>>

\* What the hook returns at a render.
canUndo == Len(past) > 0
canRedo == Len(future) > 0

(* -------------------------------- start -------------------------------- *)

\* useSelectedShapeContent with no layer selected.
ShapeHookInit ==
    /\ shapeContent = DEFAULT_SHAPE_CONTENT
    /\ shapePath = Memo(shapeContent)

\* useHistory(initialState, limit) as first rendered.
HistoryHookInit(limit) ==
    /\ maxHistory = limit
    /\ past = <<>>
    /\ present = initialState
    /\ future = <<>>
    /\ pastQueue = <<>>
    /\ presentQueue = <<>>
    /\ futureQueue = <<>>

\* The hooks as first rendered: the default shape, an empty history with
\* the default limit.
HooksInit ==
    /\ ShapeHookInit
    /\ HistoryHookInit(50)

\* The dispatch layer as loaded: no worker, nothing pending.
DispatchInit ==
    /\ requestIdCounter = 0
    /\ pendingRequests = {}
    /\ worker = Null
    /\ workersCreated = 0
    /\ alive = {}
    /\ workerFailed = FALSE
    /\ requests = <<>>
    /\ timers = <<>>
    /\ invocations = <<>>
    /\ inbox = {}
    /\ outbox = {}
    /\ returned = NoReturn
    /\ requireDefined \in BOOLEAN

Init ==
    /\ DispatchInit
    /\ HooksInit

(* ------------------------------ controller ----------------------------- *)

\* A setTimeout that never arms its timer.
setTimeoutUnarmed(delay) == [state |-> "cleared", delay |-> delay, elapsed |-> 0]

\* setTimeout(callback, delay): a timer armed now.
setTimeout(delay) == [state |-> "armed", delay |-> delay, elapsed |-> 0]

\* A wrapper that forgets clearTimeout.
clearTimeoutForgotten(tm, id) == tm

\* clearTimeout(timeoutId): disarms an armed timer, nothing otherwise. A
\* disarmed timer no longer measures time.
clearTimeout(tm, id) ==
    IF tm[id].state = "armed"
    THEN [tm EXCEPT ![id] = [state |-> "cleared", delay |-> @.delay, elapsed |-> 0]]
    ELSE tm

\* A call of the promise's resolve (fn = "resolve") or reject function.
Invoke(log, id, fn, arg) ==
    [log EXCEPT ![id] = Append(@, [fn |-> fn, arg |-> arg])]

\* initWorker(): the handle held, or a newly constructed Worker, or Null
\* when the constructor throws.
initWorker(ctorOK) ==
    IF worker # Null THEN worker
    ELSE IF ctorOK THEN workersCreated + 1
    ELSE Null

\* An id made of the time alone.
mintIdTimeOnly(counter, t) == <<0, t>>

\* `req-${++requestIdCounter}-${Date.now()}`
mintId(counter, t) == <<counter + 1, t>>

\* The promise an async function returns when its body completes as
\* `completion` does.
Settled(completion) ==
    IF completion.type = "return"
    THEN [state |-> "fulfilled", value |-> completion.value]
    ELSE [state |-> "rejected", value |-> completion.value]

\* `return generatePathSync(...)` when initWorker() gave no worker. `sync`
\* is how a call of the synchronous function completes. When the call in
\* the try block throws, the catch block makes the same call again, and
\* what that one throws rejects the promise the async function returns.
\* Nothing else is touched.
syncFallback(sync) ==
    LET inTry == sync
        inCatch == sync
        completion == IF inTry.type = "throw" THEN inCatch ELSE inTry
    IN  /\ returned' = Settled(completion)
        /\ UNCHANGED state

\* The body shared by generatePathAsync and generatePerCornerPathAsync.
\* `call` holds the arguments, `message` is the request without its id,
\* `sync` is how the entry point's synchronous function completes for them.
Dispatch(call, message, sync, ctorOK, postOK, t) ==
    LET workerInstance == initWorker(ctorOK)
        id == mintId(requestIdCounter, t)
    IN  IF workerInstance = Null
        THEN syncFallback(sync)
        ELSE /\ requestIdCounter < MaxRequests
             /\ returned' = NoReturn
             /\ worker' = workerInstance
             /\ workersCreated' = IF worker = Null THEN workersCreated + 1
                                  ELSE workersCreated
             /\ alive' = IF worker = Null THEN alive \cup {workerInstance}
                         ELSE alive
             /\ requestIdCounter' = requestIdCounter + 1
             /\ requests' = requests @@ (id :> call)
             /\ timers' = timers @@ (id :> setTimeout(TIMEOUT_MS))
             /\ pendingRequests' = pendingRequests \cup {id}
             /\ IF postOK
                THEN /\ inbox' = inbox \cup {message @@ [id |-> id]}
                     /\ invocations' = invocations @@ (id :> <<>>)
                ELSE \* postMessage throws inside the promise executor: the
                     \* Promise constructor rejects the promise with it
                     /\ inbox' = inbox
                     /\ invocations' = invocations @@
                            (id :> <<[fn |-> "reject", arg |-> PostException]>>)
             /\ workerFailed' = IF worker = Null THEN FALSE ELSE workerFailed
             /\ UNCHANGED outbox

generatePathAsync(width, height, exp, ctorOK, postOK, t) ==
    /\ worker = Null => (ctorOK => workersCreated < MaxWorkers)
    /\ Dispatch([type |-> "GENERATE_PATH_SYMMETRIC",
                 width |-> width, height |-> height, exp |-> exp],
                [type |-> "GENERATE_PATH_SYMMETRIC",
                 width |-> width, height |-> height, exp |-> exp],
                generatePathSync(width, height, exp),
                ctorOK, postOK, t)

generatePerCornerPathAsync(width, height, corners, ctorOK, postOK, t) ==
    /\ worker = Null => (ctorOK => workersCreated < MaxWorkers)
    /\ Dispatch([type |-> "GENERATE_PATH_ASYMMETRIC",
                 width |-> width, height |-> height, corners |-> corners],
                [type |-> "GENERATE_PATH_ASYMMETRIC",
                 width |-> width, height |-> height, corners |-> corners],
                generatePerCornerPathSync(width, height, corners),
                ctorOK, postOK, t)

\* The reject wrapper of every entry, as worker.onerror calls it.
RejectAll(log, ids, err) ==
    [id \in DOMAIN log |->
        IF id \in ids THEN Append(log[id], [fn |-> "reject", arg |-> err])
        ELSE log[id]]

\* clearTimeout, as the wrappers of the entries `ids` call it.
ClearAll(tm, ids) ==
    [id \in DOMAIN tm |->
        IF id \in ids /\ tm[id].state = "armed"
        THEN [state |-> "cleared", delay |-> tm[id].delay, elapsed |-> 0]
        ELSE tm[id]]

\* A timer callback that drops the entry and forgets to reject.
onTimeoutSilent(id) ==
    /\ id \in Ids
    /\ timers[id].state = "armed"
    /\ timers[id].elapsed >= timers[id].delay
    /\ timers' = [timers EXCEPT ![id].state = "fired"]
    /\ pendingRequests' = pendingRequests \ {id}
    /\ UNCHANGED <<requestIdCounter, worker, workersCreated, alive, workerFailed,
                   requests, invocations, inbox, outbox>>

\* A timer callback that clears the whole table instead of its own entry.
onTimeoutClearsAll(id) ==
    /\ id \in Ids
    /\ timers[id].state = "armed"
    /\ timers[id].elapsed >= timers[id].delay
    /\ timers' = [timers EXCEPT ![id].state = "fired"]
    /\ pendingRequests' = {}
    /\ invocations' = Invoke(invocations, id, "reject", Error(<<"Path generation timeout">>))
    /\ UNCHANGED <<requestIdCounter, worker, workersCreated, alive, workerFailed,
                   requests, inbox, outbox>>

\* A timeout callback that rejects and leaves the entry in the table.
onTimeoutKeepsEntry(id) ==
    /\ id \in Ids
    /\ timers[id].state = "armed"
    /\ timers[id].elapsed >= timers[id].delay
    /\ timers' = [timers EXCEPT ![id].state = "fired"]
    /\ invocations' = Invoke(invocations, id, "reject", Error(<<"Path generation timeout">>))
    /\ UNCHANGED <<requestIdCounter, pendingRequests, worker, workersCreated, alive,
                   workerFailed, requests, inbox, outbox>>

\* The setTimeout callback of request id.
onTimeout(id) ==
    /\ id \in Ids
    /\ timers[id].state = "armed"
    /\ timers[id].elapsed >= timers[id].delay
    /\ timers' = [timers EXCEPT ![id].state = "fired"]
    /\ pendingRequests' = pendingRequests \ {id}
    /\ invocations' = Invoke(invocations, id, "reject", Error(<<"Path generation timeout">>))
    /\ UNCHANGED <<requestIdCounter, worker, workersCreated, alive, workerFailed,
                   requests, inbox, outbox>>

\* An onmessage that settles the oldest pending entry, whatever id the
\* response carries.
onmessageOldest(data) ==
    /\ worker # Null
    /\ data \in outbox
    /\ outbox' = outbox \ {data}
    /\ LET pathData == Field(data, "pathData")
           error == Field(data, "error")
       IN  IF pendingRequests = {}
           THEN UNCHANGED <<pendingRequests, timers, invocations>>
           ELSE LET id == CHOOSE i \in pendingRequests :
                             \A k \in pendingRequests : i[1] <= k[1]
                IN  /\ pendingRequests' = pendingRequests \ {id}
                    /\ timers' = clearTimeout(timers, id)
                    /\ IF Truthy(error)
                       THEN invocations' = Invoke(invocations, id, "reject", Error(error.s))
                       ELSE invocations' = Invoke(invocations, id, "resolve", pathData)
    /\ UNCHANGED <<requestIdCounter, worker, workersCreated, alive, workerFailed,
                   requests, inbox>>

\* An onmessage that fails every pending request on an unknown id.
onmessageUnknownRejectsAll(data) ==
    /\ worker # Null
    /\ data \in outbox
    /\ outbox' = outbox \ {data}
    /\ LET id == data.id
           pathData == Field(data, "pathData")
           error == Field(data, "error")
       IN  IF id \notin pendingRequests
           THEN /\ invocations' = RejectAll(invocations, pendingRequests,
                                            Error(<<"Unknown request">>))
                /\ timers' = ClearAll(timers, pendingRequests)
                /\ pendingRequests' = {}
           ELSE /\ pendingRequests' = pendingRequests \ {id}
                /\ timers' = clearTimeout(timers, id)
                /\ IF Truthy(error)
                   THEN invocations' = Invoke(invocations, id, "reject", Error(error.s))
                   ELSE invocations' = Invoke(invocations, id, "resolve", pathData)
    /\ UNCHANGED <<requestIdCounter, worker, workersCreated, alive, workerFailed,
                   requests, inbox>>

\* worker.onmessage, for the response `data` taken from the channel.
onmessage(data) ==
    /\ worker # Null
    /\ data \in outbox
    /\ outbox' = outbox \ {data}
    /\ LET id == data.id
           pathData == Field(data, "pathData")
           error == Field(data, "error")
       IN  IF id \notin pendingRequests
           THEN UNCHANGED <<pendingRequests, timers, invocations>>
           ELSE /\ pendingRequests' = pendingRequests \ {id}
                /\ timers' = clearTimeout(timers, id)
                /\ IF Truthy(error)
                   THEN invocations' = Invoke(invocations, id, "reject", Error(error.s))
                   ELSE invocations' = Invoke(invocations, id, "resolve", pathData)
    /\ UNCHANGED <<requestIdCounter, worker, workersCreated, alive, workerFailed,
                   requests, inbox>>

\* An error handler that also forgets the worker, without terminating it.
onerrorDropsHandle(message) ==
    /\ worker # Null
    /\ worker' = Null
    /\ workerFailed' = FALSE
    /\ invocations' = RejectAll(invocations, pendingRequests,
                                Error(<<"Worker error: ">> \o message))
    /\ timers' = ClearAll(timers, pendingRequests)
    /\ pendingRequests' = {}
    /\ UNCHANGED <<requestIdCounter, workersCreated, alive, requests,
                   inbox, outbox>>

\* worker.onerror, for an error event with the given message.
onerror(message) ==
    /\ worker # Null
    /\ workerFailed' = TRUE
    /\ invocations' = RejectAll(invocations, pendingRequests,
                                Error(<<"Worker error: ">> \o message))
    /\ timers' = ClearAll(timers, pendingRequests)
    /\ pendingRequests' = {}
    /\ UNCHANGED <<requestIdCounter, worker, workersCreated, alive, requests,
                   inbox, outbox>>

\* A terminateWorker without pendingRequests.clear().
terminateWorkerKeepsTable ==
    IF worker # Null
    THEN /\ worker' = Null
         /\ inbox' = {}
         /\ outbox' = {}
         /\ workerFailed' = FALSE
         /\ alive' = alive \ {worker}
         /\ UNCHANGED <<requestIdCounter, pendingRequests, workersCreated,
                        requests, timers, invocations>>
    ELSE UNCHANGED state

\* A terminateWorker that only forgets the handle: the worker runs on and
\* the table keeps its entries.
terminateWorkerDropsHandle ==
    IF worker # Null
    THEN /\ worker' = Null
         /\ workerFailed' = FALSE
         /\ UNCHANGED <<requestIdCounter, pendingRequests, workersCreated, alive,
                        requests, timers, invocations, inbox, outbox>>
    ELSE UNCHANGED state

\* terminateWorker(): worker.terminate() discards what is queued in
\* either direction of the terminated worker's channel.
terminateWorker ==
    IF worker # Null
    THEN /\ worker' = Null
         /\ pendingRequests' = {}
         /\ inbox' = {}
         /\ outbox' = {}
         /\ workerFailed' = FALSE
         /\ alive' = alive \ {worker}
         /\ UNCHANGED <<requestIdCounter, workersCreated,
                        requests, timers, invocations>>
    ELSE UNCHANGED state

(* -------------------------------- worker ------------------------------- *)

\* The generator the message's discriminant selects.
Generate(data) ==
    IF data.type = "GENERATE_PATH_SYMMETRIC"
    THEN getSuperellipsePath(data.width, data.height, data.exp)
    ELSE getPerCornerSuperellipsePath(data.width, data.height, data.corners)

\* The discriminants self.onmessage knows.
MessageTypes == {"GENERATE_PATH_SYMMETRIC", "GENERATE_PATH_ASYMMETRIC"}

\* What ends the try block for request `data` when a generator call ends
\* as `outcome`: no generator is called for an unknown discriminant, the
\* handler throws instead.
Attempt(data, outcome) ==
    IF data.type \in MessageTypes THEN outcome
    ELSE Error(<<"Unknown message type: ", data.type>>)

\* A handler that answers an unknown discriminant with an empty success.
ResponseUnknownAsSuccess(data, outcome) ==
    IF data.type \notin MessageTypes
    THEN [id |-> data.id, pathData |-> Undefined]
    ELSE IF outcome = Returns
         THEN [id |-> data.id, pathData |-> Generate(data)]
         ELSE [id |-> data.id,
               error |-> IF outcome.type = "Error" THEN Str(outcome.message)
                         ELSE Str(<<"Unknown error">>)]

\* The response self.onmessage posts for request `data` when the generator
\* call ends as `outcome`.
Response(data, outcome) ==
    IF Attempt(data, outcome) = Returns
    THEN [id |-> data.id, pathData |-> Generate(data)]
    ELSE [id |-> data.id,
          error |-> IF Attempt(data, outcome).type = "Error"
                    THEN Str(Attempt(data, outcome).message)
                    ELSE Str(<<"Unknown error">>)]

\* A handler without the catch: a throwing generation posts nothing.
selfOnmessageNoCatch(data, outcome) ==
    /\ worker # Null
    /\ data \in inbox
    /\ inbox' = inbox \ {data}
    /\ outbox' = IF outcome = Returns
                 THEN outbox \cup {Response(data, outcome)}
                 ELSE outbox
    /\ UNCHANGED <<requestIdCounter, pendingRequests, worker, workersCreated, alive,
                   workerFailed, requests, timers, invocations>>

\* self.onmessage in the worker.
selfOnmessage(data, outcome) ==
    /\ worker # Null
    /\ data \in inbox
    /\ inbox' = inbox \ {data}
    /\ outbox' = outbox \cup {Response(data, outcome)}
    /\ UNCHANGED <<requestIdCounter, pendingRequests, worker, workersCreated, alive,
                   workerFailed, requests, timers, invocations>>

(* -------------------------------- clock -------------------------------- *)

\* TickMs milliseconds pass: every armed timer that has not run out its
\* delay has waited that much longer.
Tick ==
    /\ \E id \in Ids : timers[id].state = "armed" /\ timers[id].elapsed < timers[id].delay
    /\ timers' = [id \in Ids |->
            IF timers[id].state = "armed" /\ timers[id].elapsed < timers[id].delay
            THEN [timers[id] EXCEPT !.elapsed = @ + TickMs]
            ELSE timers[id]]
    /\ UNCHANGED <<requestIdCounter, pendingRequests, worker, workersCreated, alive,
                   workerFailed, requests, invocations, inbox, outbox>>

(* ----------------------------- specification --------------------------- *)

\* A step that is no async call returns no promise, and the hooks, which
\* never call the dispatch layer, stay as they are.
Quiet == returned' = NoReturn /\ UNCHANGED <<hooks, requireDefined>>

\* What happens between the calls: the event loop delivers a timer, a
\* message of the worker or its error event, the owner terminates the
\* worker, the worker serves a request, time passes.
Events ==
    \/ (\E id \in Ids : onTimeout(id)) /\ Quiet
    \/ (\E data \in outbox : onmessage(data)) /\ Quiet
    \/ (\E m \in ErrorEventMessages : onerror(m)) /\ Quiet
    \/ terminateWorker /\ Quiet
    \/ (\E data \in inbox, outcome \in GenOutcomes : selfOnmessage(data, outcome))
          /\ Quiet
    \/ Tick /\ Quiet

Next ==
    \/ /\ \E w \in Widths, h \in Heights, e \in Exps, ctorOK \in BOOLEAN,
             postOK \in BOOLEAN, t \in Timestamps :
             generatePathAsync(w, h, e, ctorOK, postOK, t)
       /\ UNCHANGED <<hooks, requireDefined>>
    \/ /\ \E w \in Widths, h \in Heights, c \in CornerSets, ctorOK \in BOOLEAN,
             postOK \in BOOLEAN, t \in Timestamps :
             generatePerCornerPathAsync(w, h, c, ctorOK, postOK, t)
       /\ UNCHANGED <<hooks, requireDefined>>
    \/ Events

Spec == Init /\ [][Next]_vars

\* The same steps, with at most MaxLiveRequests dispatches.
FairNext ==
    \/ /\ \E w \in Widths, h \in Heights, e \in Exps, ctorOK \in BOOLEAN,
             postOK \in BOOLEAN, t \in Timestamps :
             generatePathAsync(w, h, e, ctorOK, postOK, t)
       /\ requestIdCounter' <= MaxLiveRequests
       /\ UNCHANGED <<hooks, requireDefined>>
    \/ /\ \E w \in Widths, h \in Heights, c \in CornerSets, ctorOK \in BOOLEAN,
             postOK \in BOOLEAN, t \in Timestamps :
             generatePerCornerPathAsync(w, h, c, ctorOK, postOK, t)
       /\ requestIdCounter' <= MaxLiveRequests
       /\ UNCHANGED <<hooks, requireDefined>>
    \/ Events

\* The same program, followed over fewer dispatches so that its infinite
\* behaviours can be examined, under the scheduling of the event loop.
\* The event loop runs every timer that is due: time does not stop while
\* a timer is armed, and a timer that has run out its delay gets its
\* callback called. Nothing is assumed of the worker: it may never
\* answer, and no error event need ever fire.
FairSpec ==
    /\ Init
    /\ [][FairNext]_vars
    /\ WF_vars(Tick /\ Quiet)
    /\ WF_vars((\E id \in Ids : onTimeout(id)) /\ Quiet)

\* The worker script alone, a worker whose queue holds any of these
\* messages: two symmetric requests, a per-corner one and one whose
\* discriminant the script does not know.
WorkerMessages ==
    {[id |-> <<1, 0>>, type |-> "GENERATE_PATH_SYMMETRIC",
      width |-> 100, height |-> 60, exp |-> 4],
     [id |-> <<2, 0>>, type |-> "GENERATE_PATH_SYMMETRIC",
      width |-> 100, height |-> 60, exp |-> 2],
     [id |-> <<3, 0>>, type |-> "GENERATE_PATH_ASYMMETRIC",
      width |-> 100, height |-> 60,
      corners |-> [topLeft |-> 2, topRight |-> 8, bottomRight |-> 2, bottomLeft |-> 8]],
     [id |-> <<4, 0>>, type |-> "PING"]}

WorkerInit ==
    /\ requestIdCounter = 0
    /\ pendingRequests = {}
    /\ worker = 1
    /\ workersCreated = 1
    /\ alive = {1}
    /\ workerFailed = FALSE
    /\ requests = <<>>
    /\ timers = <<>>
    /\ invocations = <<>>
    /\ inbox \in SUBSET WorkerMessages
    /\ outbox = {}
    /\ returned = NoReturn
    /\ requireDefined \in BOOLEAN
    /\ HooksInit

WorkerNext ==
    /\ \E data \in inbox, outcome \in GenOutcomes : selfOnmessage(data, outcome)
    /\ Quiet

WorkerSpec == WorkerInit /\ [][WorkerNext]_vars

\* useSelectedShapeContent alone, its layer content changing at will.
ShapeNext == \E content \in ShapeContents : updateSelectedShapeContent(content)

ShapeSpec == Init /\ [][ShapeNext]_vars

\* useHistory alone, its owner calling what the hook returns, in any order
\* and with or without a render in between.
HistoryInit ==
    /\ DispatchInit
    /\ ShapeHookInit
    /\ \E limit \in MaxHistories : HistoryHookInit(limit)

HistoryNext ==
    \/ \E newState \in Snapshots : pushState(newState)
    \/ \E eager \in BOOLEAN : undo(eager)
    \/ \E eager \in BOOLEAN : redo(eager)
    \/ \E newState \in Snapshots, eager \in BOOLEAN : setState(newState, eager)
    \/ clearHistory
    \/ \E newState \in Snapshots, eager \in BOOLEAN : resetHistory(newState, eager)
    \/ render

HistorySpec == HistoryInit /\ [][HistoryNext]_vars

(* ------------------------------ properties ----------------------------- *)

TimeoutError == Error(<<"Path generation timeout">>)
ContextError(message) == Error(<<"Worker error: ">> \o message)

\* The path the caller of request id is owed: the generator of its entry
\* point applied to its own arguments.
OwnPath(id) ==
    IF requests[id].type = "GENERATE_PATH_SYMMETRIC"
    THEN getSuperellipsePath(requests[id].width, requests[id].height, requests[id].exp)
    ELSE getPerCornerSuperellipsePath(requests[id].width, requests[id].height,
                                      requests[id].corners)

\* How the synchronous function of the entry point of request id completes
\* for the arguments of that request.
OwnSync(id) ==
    IF requests[id].type = "GENERATE_PATH_SYMMETRIC"
    THEN generatePathSync(requests[id].width, requests[id].height, requests[id].exp)
    ELSE generatePerCornerPathSync(requests[id].width, requests[id].height,
                                   requests[id].corners)

\* C1: every request id reaches at most one terminal state: the resolve
\* and reject functions of its promise are called at most once in all.
C1_SettledOnce ==
    \A id \in Ids : Len(invocations[id]) <= 1

\* C2 as stated: an entry leaves the pending table only in a step that
\* settles its request (response, own timeout or worker-error failure).
C2_RemovedOnlyBySettling ==
    [][\A id \in pendingRequests :
          id \notin pendingRequests' =>
              Len(invocations'[id]) = Len(invocations[id]) + 1]_vars

\* C2 amended: a dispatched id enters the pending table with its dispatch
\* and never enters it again once removed, and an entry leaves the table
\* only by a matching response, its own
\* timeout or the worker-error handler, each of which settles the request
\* in the same step, or by terminateWorker, which empties the table and
\* settles nothing.
C2_RemovalPaths ==
    [][/\ \A id \in Ids' \ Ids : id \in pendingRequests'
       /\ \A id \in Ids \ pendingRequests : id \notin pendingRequests'
       /\ \A id \in pendingRequests :
             id \notin pendingRequests' =>
                \/ /\ \/ \E data \in outbox : data.id = id /\ onmessage(data)
                      \/ onTimeout(id)
                      \/ \E m \in ErrorEventMessages : onerror(m)
                   /\ Len(invocations'[id]) = Len(invocations[id]) + 1
                \/ /\ terminateWorker
                   /\ pendingRequests' = {}
                   /\ invocations' = invocations]_vars

\* An entry that left the table unsettled: terminateWorker abandoned it.
C2_Witness ==
    \E id \in Ids : id \notin pendingRequests /\ invocations[id] = <<>>

\* C3: a response {id, pathData} for an id in the pending table cancels
\* the timeout of id, removes its entry and fulfils its promise with the
\* pathData of the response.
C3_MatchingResponse ==
    [][\A data \in outbox :
          (/\ onmessage(data)
           /\ data.id \in pendingRequests
           /\ "pathData" \in DOMAIN data) =>
              /\ timers'[data.id].state = "cleared"
              /\ data.id \notin pendingRequests'
              /\ PromiseOf(invocations'[data.id]) =
                    [state |-> "fulfilled", value |-> data.pathData]]_vars

C3_Witness ==
    \E id \in Ids :
        /\ promise(id) = [state |-> "fulfilled", value |-> OwnPath(id)]
        /\ timers[id].state = "cleared"
        /\ id \notin pendingRequests

\* C4: a response settles the promise of the request carrying its id and
\* no other, and a path it delivers is the path of that request's own
\* arguments, whatever else is outstanding and in whatever order responses
\* arrive.
C4_OwnResponse ==
    [][\A data \in outbox :
          onmessage(data) =>
              /\ \A id \in Ids \ {data.id} : invocations'[id] = invocations[id]
              /\ (data.id \in pendingRequests /\ "pathData" \in DOMAIN data) =>
                    PromiseOf(invocations'[data.id]) =
                        [state |-> "fulfilled", value |-> OwnPath(data.id)]]_vars

\* The later of two outstanding requests of different kinds is fulfilled
\* with its own path while the earlier one still waits.
C4_Witness ==
    \E i, j \in Ids :
        /\ i[1] < j[1]
        /\ requests[i].type # requests[j].type
        /\ i \in pendingRequests /\ invocations[i] = <<>>
        /\ promise(j) = [state |-> "fulfilled", value |-> OwnPath(j)]

\* C5: the response to a request whose generation threw rejects that
\* request's promise, never fulfils it, and touches no other request.
C5_ThrownIsRejected ==
    [][\A data \in outbox :
          (/\ onmessage(data)
           /\ data.id \in pendingRequests
           /\ "error" \in DOMAIN data) =>
              /\ PromiseOf(invocations'[data.id]).state = "rejected"
              /\ pendingRequests' = pendingRequests \ {data.id}
              /\ \A id \in Ids \ {data.id} :
                    invocations'[id] = invocations[id] /\ timers'[id] = timers[id]]_vars

\* C6: when the timer of a request that got no response fires, the entry
\* of the request is removed and its promise is rejected with the timeout
\* error; and reject is never called with the timeout error unless the
\* timer of that request has fired after its full 10,000 ms.
C6_TimeoutNotBefore ==
    [][/\ \A id \in Ids :
             onTimeout(id) =>
                /\ id \notin pendingRequests'
                /\ invocations'[id] =
                      Append(invocations[id], [fn |-> "reject", arg |-> TimeoutError])
                /\ PromiseOf(invocations'[id]) =
                      [state |-> "rejected", value |-> TimeoutError]
       /\ \A id \in Ids' :
             (\E k \in 1..Len(invocations'[id]) : invocations'[id][k].arg = TimeoutError) =>
                /\ timers'[id].state = "fired"
                /\ timers'[id].elapsed >= 10000]_vars

\* C7: the timeout of request i removes the entry of i alone and rejects
\* the promise of i alone; every other request keeps its entry, its timer
\* and its promise as they were.
C7_TimeoutFrame ==
    [][\A i \in Ids :
          onTimeout(i) =>
              /\ pendingRequests' = pendingRequests \ {i}
              /\ \A j \in Ids \ {i} :
                    /\ timers'[j] = timers[j]
                    /\ invocations'[j] = invocations[j]]_vars

\* The later request has timed out while the earlier one is still in the
\* table, its timer armed and its promise unsettled.
C7_Witness ==
    \E i, j \in Ids :
        /\ j[1] < i[1]
        /\ timers[i].state = "fired"
        /\ j \in pendingRequests
        /\ timers[j].state = "armed"
        /\ invocations[j] = <<>>

\* C8: a response whose id is not in the pending table is discarded: it
\* calls no resolve or reject function and leaves the table and every
\* timer as they were.
C8_UnknownIdDiscarded ==
    [][\A data \in outbox :
          (onmessage(data) /\ data.id \notin pendingRequests) =>
              UNCHANGED <<pendingRequests, timers, invocations>>]_vars

\* The response of a request that had timed out was delivered (the channel
\* of the only worker ever built was never purged) and changed nothing,
\* while another request was waiting.
C8_Witness ==
    \E i, j \in Ids :
        /\ workersCreated = 1 /\ worker # Null
        /\ invocations[i] = <<[fn |-> "reject", arg |-> TimeoutError]>>
        /\ \A data \in inbox \cup outbox : data.id # i
        /\ j \in pendingRequests /\ timers[j].state = "armed"

\* C9: the worker-error handler calls the reject wrapper of every pending
\* entry with the context-failure error, which cancels the timeout of each,
\* every one of their promises is rejected with that error, and the table
\* is left empty.
C9_WorkerErrorFailsAll ==
    [][\A m \in ErrorEventMessages :
          onerror(m) =>
              /\ pendingRequests' = {}
              /\ \A id \in pendingRequests :
                    /\ timers'[id].state = "cleared"
                    /\ invocations'[id] =
                          Append(invocations[id], [fn |-> "reject", arg |-> ContextError(m)])
                    /\ PromiseOf(invocations'[id]) =
                          [state |-> "rejected", value |-> ContextError(m)]
              /\ \A id \in Ids \ pendingRequests :
                    invocations'[id] = invocations[id] /\ timers'[id] = timers[id]]_vars

\* C10: a request dispatched after the error event of the worker held
\* has fired is not posted to that failed worker.
C10_NotTheFailedContext ==
    [][requestIdCounter' = requestIdCounter + 1 =>
          ~(workerFailed /\ worker' = worker)]_vars

\* C11: once the construction of the worker has failed it is not attempted
\* again: the step that follows a call whose construction threw (the call
\* was served by the synchronous fallback) constructs no worker.
C11_NoRetryAfterFailure ==
    [][returned # NoReturn => workersCreated' = workersCreated]_vars

\* C12: an async call made while no worker can be had (none is held and
\* the construction throws) returns the result of the synchronous
\* generator of its entry point for its own arguments, and mints no id,
\* adds no pending entry, arms no timer and posts no message.
C12_FallbackBypassesCorrelation ==
    [][worker = Null =>
          /\ \A width \in Widths, height \in Heights, exp \in Exps,
                postOK \in BOOLEAN, t \in Timestamps :
                generatePathAsync(width, height, exp, FALSE, postOK, t) =>
                    /\ returned' = [state |-> "fulfilled",
                                    value |-> getSuperellipsePath(width, height, exp)]
                    /\ UNCHANGED <<requestIdCounter, requests, pendingRequests,
                                   timers, invocations, inbox, outbox>>
          /\ \A width \in Widths, height \in Heights, corners \in CornerSets,
                postOK \in BOOLEAN, t \in Timestamps :
                generatePerCornerPathAsync(width, height, corners, FALSE, postOK, t) =>
                    /\ returned' =
                          [state |-> "fulfilled",
                           value |-> getPerCornerSuperellipsePath(width, height, corners)]
                    /\ UNCHANGED <<requestIdCounter, requests, pendingRequests,
                                   timers, invocations, inbox, outbox>>]_vars

\* C13: a call whose postMessage throws falls back to the synchronous
\* generator: no promise is rejected with the posting exception.
C13_PostFailureFallsBack ==
    \A id \in Ids :
        promise(id) # [state |-> "rejected", value |-> PostException]

\* C14: a promise abandoned by terminateWorker (its id is no longer in the
\* pending table and it is unsettled) is never settled by a later step.
C14_AbandonedNeverSettled ==
    [][\A id \in Ids \ pendingRequests :
          invocations[id] = <<>> => invocations'[id] = <<>>]_vars

\* A step that is a call of one of the two async entry points.
AsyncCall ==
    \E width \in Widths, height \in Heights, ctorOK, postOK \in BOOLEAN,
       t \in Timestamps :
        \/ \E exp \in Exps :
              generatePathAsync(width, height, exp, ctorOK, postOK, t)
        \/ \E corners \in CornerSets :
              generatePerCornerPathAsync(width, height, corners, ctorOK, postOK, t)

\* C15: at most one worker is alive, and it is the one whose handle is
\* held; a worker is constructed only by an async call made while no
\* handle is held, and a held handle is dropped only by terminateWorker,
\* which terminates that worker.
C15_OneWorkerAlive ==
    /\ [](Cardinality(alive) <= 1 /\ alive = {worker} \ {Null})
    /\ [][/\ workersCreated' # workersCreated =>
                 /\ worker = Null /\ AsyncCall
                 /\ worker' = workersCreated' /\ alive' = {worker'}
          /\ (worker # Null /\ worker' # worker) =>
                 /\ terminateWorker
                 /\ worker' = Null /\ worker \notin alive']_vars

\* The second worker is alive alone: the first one was terminated, after
\* its error event had fired.
C15_Witness ==
    /\ workersCreated = 2 /\ worker = 2 /\ alive = {2}
    /\ \E id \in Ids : \E m \in ErrorEventMessages :
          promise(id) = [state |-> "rejected", value |-> ContextError(m)]

\* C16: every dispatch mints an id no earlier request carries, whichever
\* entry point makes it: its counter component is the incremented counter,
\* above the counter component of every id minted before.
C16_FreshIds ==
    /\ [](Cardinality(Ids) = requestIdCounter)
    /\ [][requestIdCounter' # requestIdCounter =>
              /\ requestIdCounter' = requestIdCounter + 1
              /\ \E id \in Ids' \ Ids :
                    /\ Ids' = Ids \cup {id}
                    /\ id[1] = requestIdCounter'
                    /\ \A k \in Ids : k[1] < id[1]
                    /\ id \in pendingRequests'
                    /\ \A data \in inbox' \ inbox : data.id = id]_vars

\* Two requests outstanding at once, one from each entry point, minted at
\* the same time.
C16_Witness ==
    \E i, j \in pendingRequests :
        /\ i # j /\ i[2] = j[2]
        /\ requests[i].type = "GENERATE_PATH_SYMMETRIC"
        /\ requests[j].type = "GENERATE_PATH_ASYMMETRIC"
        /\ \E data \in inbox : data.id = i
        /\ \E data \in inbox : data.id = j

\* C17: a fulfilled promise of an async call holds what the synchronous
\* generator of its entry point returns for the call's arguments, whether
\* the worker or the synchronous fallback served the call.
C17_AsyncEqualsSync ==
    /\ \A id \in Ids :
          promise(id).state = "fulfilled" => OwnSync(id) = Return(promise(id).value)
    /\ returned.state = "fulfilled" =>
          \E width \in Widths, height \in Heights :
              \/ \E exp \in Exps :
                    generatePathSync(width, height, exp) = Return(returned.value)
              \/ \E corners \in CornerSets :
                    generatePerCornerPathSync(width, height, corners) =
                        Return(returned.value)

\* Every id a dispatch can mint within the bounds.
AllIds == (1 .. MaxLiveRequests) \X Timestamps

\* C18: every async call gets its result in the end, whatever the worker
\* does: a call served by the fallback returns a promise that is already
\* fulfilled or rejected, and the promise of every dispatched request is
\* eventually fulfilled or rejected.
C18_EventuallySettled ==
    /\ [](returned # NoReturn => returned.state \in {"fulfilled", "rejected"})
    /\ \A id \in AllIds :
          (id \in Ids) ~> (id \in Ids /\ promise(id).state # "pending")

\* A request the worker never took off its queue was rejected by its
\* timeout.
C18_Witness ==
    \E id \in Ids :
        /\ promise(id) = [state |-> "rejected", value |-> TimeoutError]
        /\ \E data \in inbox : data.id = id
        /\ worker # Null /\ ~workerFailed

\* C19: the worker's handler takes one request off its queue and posts
\* exactly one response, which carries the id of that request: the
\* generated path when the generation returns, an error string and no
\* path when it throws.
C19_OneResponsePerRequest ==
    [][\A data \in inbox, outcome \in GenOutcomes :
          selfOnmessage(data, outcome) =>
              /\ inbox' = inbox \ {data}
              /\ \E r \in outbox' \ outbox :
                    /\ outbox' = outbox \cup {r}
                    /\ r.id = data.id
                    /\ IF outcome = Returns
                       THEN r = [id |-> data.id, pathData |-> Generate(data)]
                       ELSE /\ DOMAIN r = {"id", "error"}
                            /\ r.error.type = "string"]_vars

\* The worker has answered one request with a path and another with an
\* error, and neither answer has been delivered yet.
C19_Witness ==
    \E r1, r2 \in outbox :
        /\ r1.id # r2.id
        /\ DOMAIN r1 = {"id", "pathData"} /\ r1.pathData.type = "string"
        /\ DOMAIN r2 = {"id", "error"}
        /\ {r1.id, r2.id} \subseteq pendingRequests

\* C22: the worker answers a symmetric request with the symmetric
\* generator applied to its width, height and exp, a per-corner request
\* with the per-corner generator applied to its width, height and corners,
\* and a message of any other type with an error response of the same id.
C22_GeneratorByType ==
    [][\A data \in inbox, outcome \in GenOutcomes :
          selfOnmessage(data, outcome) =>
              \E r \in outbox' \ outbox :
                  /\ outbox' = outbox \cup {r}
                  /\ r.id = data.id
                  /\ (data.type = "GENERATE_PATH_SYMMETRIC" /\ outcome = Returns) =>
                        r = [id |-> data.id,
                             pathData |-> getSuperellipsePath(data.width, data.height,
                                                              data.exp)]
                  /\ (data.type = "GENERATE_PATH_ASYMMETRIC" /\ outcome = Returns) =>
                        r = [id |-> data.id,
                             pathData |-> getPerCornerSuperellipsePath(
                                              data.width, data.height, data.corners)]
                  /\ data.type \notin MessageTypes =>
                        /\ DOMAIN r = {"id", "error"}
                        /\ r.error = Str(<<"Unknown message type: ", data.type>>)]_vars

\* The worker has answered a request of each known type with its path
\* and the message of unknown type with an error.
C22_Witness ==
    /\ inbox = {}
    /\ \E r \in outbox : r.id = <<2, 0>> /\ Field(r, "pathData") = getSuperellipsePath(100, 60, 2)
    /\ \E r \in outbox : r.id = <<3, 0>> /\ Field(r, "pathData") # Undefined
    /\ \E r \in outbox : r.id = <<4, 0>> /\ Field(r, "error") # Undefined

\* C23: a call whose postMessage throws leaves no entry for its id in the
\* pending table and no timer armed for it.
C23_PostFailureLeavesNothing ==
    [][\A id \in Ids' \ Ids :
          invocations'[id] = <<[fn |-> "reject", arg |-> PostException]>> =>
              /\ id \notin pendingRequests'
              /\ timers'[id].state # "armed"]_vars

\* C24: the timer of every entry in the pending table is armed.
C24_PendingHaveArmedTimer ==
    \A id \in pendingRequests : timers[id].state = "armed"

\* An entry in the table, its timer running, while the timer of an
\* earlier request has fired.
C24_Witness ==
    \E i \in Ids \ pendingRequests, j \in pendingRequests :
        /\ timers[i].state = "fired"
        /\ timers[j].state = "armed" /\ timers[j].elapsed > 0

\* C25: a timer is armed only for an id that is in the pending table.
C25_ArmedOnlyIfPending ==
    \A id \in Ids : timers[id].state = "armed" => id \in pendingRequests

\* C26: while no worker handle is held the pending table is empty.
C26_NoWorkerNoPending ==
    worker = Null => pendingRequests = {}

\* No handle is held after a terminateWorker that found a request
\* outstanding, and the table is empty.
C26_Witness ==
    /\ worker = Null /\ workersCreated >= 1 /\ pendingRequests = {}
    /\ \E id \in Ids : timers[id].state = "armed" /\ promise(id) = Pending

\* C27: terminateWorker leaves no entry in the table and nothing in the
\* channel of the worker it terminates; the next dispatch constructs a new
\* worker, which is the one held and alive and whose queue holds that
\* dispatch alone; and no step fulfils a request whose entry is gone, so
\* that no response of the new worker settles a request issued before the
\* terminateWorker.
C27_FreshWorkerAfterTerminate ==
    [][/\ (worker # Null /\ terminateWorker) =>
             /\ worker' = Null /\ pendingRequests' = {}
             /\ inbox' = {} /\ outbox' = {}
       /\ (worker = Null /\ requestIdCounter' # requestIdCounter) =>
             /\ worker' = workersCreated + 1 /\ worker' \notin alive
             /\ alive' = {worker'} /\ ~workerFailed'
             /\ \A data \in inbox' \cup outbox' : data.id \in Ids' \ Ids
       /\ \A id \in Ids \ pendingRequests :
             \A k \in (Len(invocations[id]) + 1) .. Len(invocations'[id]) :
                 invocations'[id][k].fn # "resolve"]_vars

\* The second worker has answered a request issued after the
\* terminateWorker, which is fulfilled, while a request issued before it
\* was never answered.
C27_Witness ==
    /\ workersCreated = 2 /\ worker = 2
    /\ \E i, j \in Ids :
          /\ i[1] < j[1]
          /\ promise(i).state # "fulfilled"
          /\ timers[i].state # "cleared"
          /\ promise(j) = [state |-> "fulfilled", value |-> OwnPath(j)]

\* The four corner exponents are one and the same.
Uniform(corners) ==
    /\ corners.topLeft = corners.topRight
    /\ corners.topRight = corners.bottomRight
    /\ corners.bottomRight = corners.bottomLeft

\* C21: with the four corner exponents equal to e, the per-corner
\* generator returns the path the symmetric generator returns for e, and
\* so the outline shown for a shape does not depend on whether the shape
\* is marked as having asymmetric corners.
C21_UniformCornerEquivalence ==
    LET width == shapeContent.width
        height == shapeContent.height
        corners == shapeContent.cornerExponents
    IN  Uniform(corners) =>
            /\ generatePerCornerPathSync(width, height, corners) =
                   generatePathSync(width, height, corners.topLeft)
            /\ shapeContent.useAsymmetricCorners =>
                   shapePath = getSuperellipsePath(width, height, corners.topLeft)

\* A shape marked asymmetric whose four corners share an exponent that is
\* not the shape's own exponent, shown with the symmetric outline.
C21_Witness ==
    /\ shapeContent.useAsymmetricCorners
    /\ Uniform(shapeContent.cornerExponents)
    /\ shapeContent.cornerExponents.topLeft = 2
    /\ shapeContent.exp = 4
    /\ shapePath = getSuperellipsePath(shapeContent.width, shapeContent.height, 2)

\* Every snapshot the history holds, oldest first.
Timeline == past \o <<present>> \o future

\* The calls that queued anything since the last render are pushState
\* calls and nothing else: each queued one updater of past, one value of
\* present and the emptying of future.
OnlyPushStates ==
    /\ pastQueue # <<>>
    /\ \A i \in DOMAIN pastQueue : pastQueue[i].op = "push"
    /\ Len(presentQueue) = Len(pastQueue)
    /\ Len(futureQueue) = Len(pastQueue)

\* The calls that queued anything since the last render are undo and redo
\* calls and nothing else, each queued for the render to run.
OnlyUndoRedo ==
    /\ pastQueue # <<>> \/ futureQueue # <<>>
    /\ \A i \in DOMAIN pastQueue : pastQueue[i].op = "undo"
    /\ \A i \in DOMAIN futureQueue : futureQueue[i].op = "redo"
    /\ presentQueue = <<>>

\* C28: pushState(s) makes s the present, puts the present it replaces at
\* the end of past and empties future, so that canRedo is false after it:
\* the hook rendered after one or several pushState calls holds the last s
\* as present, the present that call replaced at the end of past, and no
\* future.
C28_PushState ==
    [][(render /\ OnlyPushStates) =>
          LET n == Len(presentQueue)
              replaced == IF n = 1 THEN present ELSE presentQueue[n - 1].value
          IN  /\ present' = presentQueue[n].value
              /\ future' = <<>> /\ ~canRedo'
              /\ maxHistory > 0 =>
                    /\ past' # <<>>
                    /\ past'[Len(past')] = replaced]_vars

\* C29: past never holds more than maxHistory snapshots.
C29_PastBounded ==
    Len(past) <= maxHistory

\* C30: undo and redo leave the sequence past, present, future as it is,
\* moving only the place of the present in it, also when several of them
\* are called before the hook renders again.
C30_UndoRedoKeepTimeline ==
    [][(render /\ OnlyUndoRedo) => Timeline' = Timeline]_vars

====
